---------------------------- MODULE Spec2Model ----------------------------
(***************************************************************************)
(* A model of the artwork batch generator of cryptosong                    *)
(* (src/unnamed/part_000): the slug encoder, the layer resolver, the       *)
(* render job (createImage / compositeImage) and the promise chain that    *)
(* walks the song collection.                                              *)
(*                                                                         *)
(* Strings are sequences of one-character strings, so that toLowerCase,    *)
(* the regular-expression replacements and concatenation are computed      *)
(* character by character as the JavaScript does.                          *)
(***************************************************************************)
EXTENDS Integers, Sequences, FiniteSets, TLC

VARIABLES
    \* ---- slug encoder runs (SpecSlug, SpecPaths)
    titles,        \* the titles given to slugify
    slugs,         \* what has been computed from the titles so far
    \* ---- layer resolver runs (SpecLayers)
    song,          \* the populated song document given to creatImagePathArray
    fsFiles,       \* the files fs.existsSync finds in the layers directory
    layerSpec,     \* <<>>, or <<the outcome of creatImagePathArray(song)>>
    \* ---- batch run (Spec)
    results,       \* the collection Song.find() resolved with
    chain,         \* state of the promise built by results.reduce
    idx,           \* number of entries whose then-callback has run
    timer,         \* timer[i]: the setTimeout of entry i's delay(100)
    job,           \* job[i]: the render job of entry i
    log,           \* what console.log / console.dir have printed
    disk,          \* the files written to the output directory
    started,       \* the entries createImage was called for, in call order
    firedAtStart,  \* firedAtStart[i]: delays elapsed when createImage(i) was called
    bg,            \* module-level (implicit global) bg
    graphic,       \* module-level (implicit global) graphic
    beardPath,     \* module-level (implicit global) beardPath
    \* ---- background branch runs (SpecBackground)
    descriptor,    \* the string getHueForDate returned
    canvas,        \* <<>>, or <<the gm object createImage builds from it>>
    \* ---- tag collection (SpecTags, SpecDelete)
    tagDocs,       \* the Tag documents of the database
    songTags,      \* the tags array of the song document
    \* ---- addOrInsertTags runs (SpecTags)
    tagArray,      \* the tagArray argument
    counter,       \* the counter of the running call
    resolved,      \* how often the running call's promise was resolved
    task,          \* the updates added to the Fawn task of the running call
    pc,            \* pc[j]: where the callbacks of tagArray[j] stand
    phase,         \* "idle", "called" (a call is running) or "ran" (its task was run)
    calls,         \* calls of addOrInsertTags made so far
    saved,         \* Tag documents created by save() so far
    \* ---- deleteMany runs (SpecDelete)
    tagIdArray,    \* the caller's tagIdArray
    work,          \* the array recurse is working on
    dpc,           \* where deleteMany stands
    cbCount,       \* how often cb was invoked
    created,       \* Fawn tasks created so far
    processed      \* the ids whose task has run, in order

slugVars  == <<titles, slugs>>
layerVars == <<song, fsFiles, layerSpec>>
batchVars == <<results, chain, idx, timer, job, log, disk, started, firedAtStart,
               bg, graphic, beardPath>>
bgVars    == <<descriptor, canvas>>
dbVars    == <<tagDocs, songTags>>
addVars   == <<tagArray, counter, resolved, task, pc, phase, calls, saved>>
delVars   == <<tagIdArray, work, dpc, cbCount, created, processed>>
otherVars == <<bgVars, dbVars, addVars, delVars>>
vars      == <<slugVars, layerVars, batchVars, otherVars>>

----------------------------------------------------------------------------
(* Characters and the String methods the program uses                      *)

Lowers == <<"a","b","c","d","e","f","g","h","i","j","k","l","m",
            "n","o","p","q","r","s","t","u","v","w","x","y","z">>
Uppers == <<"A","B","C","D","E","F","G","H","I","J","K","L","M",
            "N","O","P","Q","R","S","T","U","V","W","X","Y","Z">>
Digits == {"0","1","2","3","4","5","6","7","8","9"}

Range(s) == {s[i] : i \in DOMAIN s}

\* \s of a JavaScript regular expression (the ASCII part)
IsSpace(c) == c \in {" ", "\t", "\n", "\r"}

\* \w of a JavaScript regular expression: [A-Za-z0-9_]
IsWord(c) == c \in Range(Lowers) \cup Range(Uppers) \cup Digits \cup {"_"}

LowerChar(c) ==
    IF c \in Range(Uppers)
    THEN Lowers[CHOOSE i \in DOMAIN Uppers : Uppers[i] = c]
    ELSE c

\* String.prototype.toLowerCase
toLowerCase(s) == [i \in DOMAIN s |-> LowerChar(s[i])]

\* s.replace(/\s/g, '')
StripSpace(s) == SelectSeq(s, LAMBDA c : ~IsSpace(c))

\* s.replace(/\//g, '')
StripSlash(s) == SelectSeq(s, LAMBDA c : c # "/")

\* s.replace(/\s/g, '_')
SpaceToUnderscore(s) == [i \in DOMAIN s |-> IF IsSpace(s[i]) THEN "_" ELSE s[i]]

IsPrefix(p, s) == Len(p) <= Len(s) /\ SubSeq(s, 1, Len(p)) = p

\* index of the first occurrence of pat in s, 0 when there is none
IndexOf(s, pat) ==
    LET hits == {i \in 1..(Len(s) - Len(pat) + 1) :
                     SubSeq(s, i, i + Len(pat) - 1) = pat}
    IN  IF hits = {} THEN 0 ELSE CHOOSE i \in hits : \A j \in hits : i <= j

\* s.replace(pat, rep) with a string pattern: the first occurrence only
ReplaceFirst(s, pat, rep) ==
    LET i == IndexOf(s, pat)
    IN  IF i = 0 THEN s
        ELSE SubSeq(s, 1, i - 1) \o rep \o SubSeq(s, i + Len(pat), Len(s))

\* s.match(pat) with a string pattern is non-null
Matches(s, pat) == IndexOf(s, pat) # 0

----------------------------------------------------------------------------
(* slugify                                                                 *)

\* .replace(/\s+/g, '-'): each maximal run of white space becomes one hyphen
SpaceRunsToHyphen(s) ==
    LET kept == {i \in DOMAIN s : ~IsSpace(s[i]) \/ i = 1 \/ ~IsSpace(s[i-1])}
        F[i \in 0..Len(s)] ==
            IF i = 0 THEN <<>>
            ELSE IF i \in kept
                 THEN Append(F[i-1], IF IsSpace(s[i]) THEN "-" ELSE s[i])
                 ELSE F[i-1]
    IN  F[Len(s)]

\* .replace(/[^\w\-]+/g, '')
RemoveNonWord(s) == SelectSeq(s, LAMBDA c : IsWord(c) \/ c = "-")

\* .replace(/\-\-+/g, '-'): each run of two or more hyphens becomes one
CollapseHyphens(s) ==
    LET F[i \in 0..Len(s)] ==
            IF i = 0 THEN <<>>
            ELSE IF s[i] = "-" /\ i > 1 /\ s[i-1] = "-"
                 THEN F[i-1]
                 ELSE Append(F[i-1], s[i])
    IN  F[Len(s)]

\* .replace(/^-+/, '')
TrimStart(s) ==
    LET lead == {i \in 0..Len(s) : \A j \in 1..i : s[j] = "-"}
        n    == CHOOSE i \in lead : \A j \in lead : j <= i
    IN  SubSeq(s, n + 1, Len(s))

\* .replace(/-+$/, '')
TrimEnd(s) ==
    LET trail == {i \in 0..Len(s) : \A j \in (Len(s) - i + 1)..Len(s) : s[j] = "-"}
        n     == CHOOSE i \in trail : \A j \in trail : j <= i
    IN  SubSeq(s, 1, Len(s) - n)

\* slugify with the hyphens trimmed before the non-word characters are removed
slugifyTrimFirst(text) ==
    CollapseHyphens(RemoveNonWord(TrimEnd(TrimStart(
        SpaceRunsToHyphen(toLowerCase(text))))))

slugify(text) ==
    TrimEnd(TrimStart(CollapseHyphens(RemoveNonWord(
        SpaceRunsToHyphen(toLowerCase(text))))))

----------------------------------------------------------------------------
(* Paths                                                                   *)

\* __dirname + "/../../" ; __dirname is given by the installation
rootDir == <<".","/">>
layers  == rootDir \o <<"b","u","i","l","d","/","a","r","t","l","a","y","e","r","s">>
out     == rootDir \o <<"b","u","i","l","d","/","2","0","0","9","/">>
DotPng    == <<".","p","n","g">>
SmallPng  == <<"_","s","m","a","l","l",".","p","n","g">>

imagePath(path) == layers \o path

\* const slug = `${out}${slugify(song.title)}.png`
slugPath(title) == out \o slugify(title) \o DotPng

\* createImage: pngPath = pngPath.replace(/\s/g,'_')
fullPath(pngPath) == SpaceToUnderscore(pngPath)

\* createImage: pngPath.replace('.png', '_small.png')
smallPath(pngPath) == ReplaceFirst(pngPath, DotPng, SmallPng)

\* the files one render job writes
writeSet(title) ==
    LET p == fullPath(slugPath(title)) IN {p, smallPath(p)}

----------------------------------------------------------------------------
(* Song documents                                                          *)

\* a reference that populate() left null, and one it resolved
Null    == <<>>
Some(d) == <<d>>
Doc(o)  == o[1]

Poetic      == <<"P","o","e","t","i","c">>
PoeticLower == <<"p","o","e","t","i","c">>
Love        == <<"L","o","v","e">>
MyDay       == <<"M","y"," ","D","a","y">>
Uke         == <<"u","k","e">>
UkeCap      == <<"U","k","e">>
BaritoneUke == <<"b","a","r","i","t","o","n","e"," ","u","k","e">>
Synths      == <<"s","y","n","t","h","s">>
SynthsCap   == <<"S","y","n","t","h","s">>
Guitar      == <<"g","u","i","t","a","r">>
Vocals      == <<"v","o","c","a","l","s">>
VocalsCap   == <<"V","o","c","a","l","s">>
Happy       == <<"H","a","p","p","y">>
Sad         == <<"s","a","d">>
Stubble     == <<"S","t","u","b","b","l","e">>
NotApplic   == <<"n","/","a">>
HomePng     == <<"h","o","m","e",".","p","n","g">>
HslColor    == <<"h","s","l","(","1","0",",","5","0","%",",","5","0","%",")">>
SnowPng     == <<"b","g","/","s","n","o","w",".","p","n","g">>

TestSong    == <<"T","e","s","t"," ","S","o","n","g">>
TestSongLow == <<"t","e","s","t","-","s","o","n","g","!">>
OtherSong   == <<"O","t","h","e","r">>

\* Date.prototype.getDay of a date given as a day count from 1970-01-01 (a Thursday)
getDay(date) == (date.day + 4) % 7

\* src/helpers/hueConversion.js is not part of the sources: the descriptor it
\* returns for a date is carried by the date
getHueForDate(date) == date.hue

DigitChar(n) == <<"0","1","2","3","4","5","6","7","8","9">>[n + 1]

\* fs.existsSync
existsSync(path) == path \in fsFiles

----------------------------------------------------------------------------
(* Layer resolver.  A call either returns (threw = FALSE) or throws a      *)
(* TypeError (threw = TRUE); array is the array as the call left it.       *)

Returned(a) == [threw |-> FALSE, array |-> a]
Thrown(a)   == [threw |-> TRUE,  array |-> a]

TopicPrefix      == <<"/","t","o","p","i","c","_">>
UkeSuffix        == <<"-","u","k","e",".","p","n","g">>
InstrumentPrefix == <<"/","i","n","s","t","r","u","m","e","n","t","_">>
VocalsNoHands    == <<"/","i","n","s","t","r","u","m","e","n","t","_","v","o","c","a","l","s",
                      "_","n","o","_","h","a","n","d","s",".","p","n","g">>
MoodPrefix       == <<"/","m","o","o","d","_">>
BeardPrefix      == <<"/","b","e","a","r","d","_">>
BeardNa          == <<"/","b","e","a","r","d","_","n","a",".","p","n","g">>

addTopic(s, array) ==
    LET basicTopicName == StripSpace(toLowerCase(s.topic.name))
        ukeVariant     == imagePath(TopicPrefix \o basicTopicName \o UkeSuffix)
    IN  IF s.topic.name = Poetic
        THEN Returned(Append(array,
                 imagePath(TopicPrefix \o basicTopicName
                           \o <<DigitChar(getDay(s.date) + 1)>> \o DotPng)))
        ELSE IF s.secondaryInstrument = Null
        THEN Thrown(array)          \* line 77: .name of null
        ELSE IF /\ \/ Doc(s.secondaryInstrument).name = BaritoneUke
                   \/ Doc(s.secondaryInstrument).name = Uke
                /\ existsSync(ukeVariant)
        THEN Returned(Append(array, ukeVariant))
        ELSE Returned(Append(array, imagePath(TopicPrefix \o basicTopicName \o DotPng)))

addInstrumentLayers(s, array) ==
    LET instrument(name) ==
            layers \o InstrumentPrefix \o StripSpace(toLowerCase(name)) \o DotPng
    IN  IF s.secondaryInstrument = Null
        THEN Thrown(array)          \* line 87: .name of null
        ELSE IF toLowerCase(Doc(s.secondaryInstrument).name) = Synths
        THEN Returned(array \o <<instrument(Doc(s.secondaryInstrument).name),
                                 layers \o VocalsNoHands>>)
        ELSE IF s.secondaryInstrument # Null
                /\ toLowerCase(s.mainInstrument.name) = Vocals
        THEN Returned(array \o <<layers \o VocalsNoHands,
                                 instrument(Doc(s.secondaryInstrument).name)>>)
        ELSE Returned(Append(array, instrument(s.mainInstrument.name)))

\* the value line 64 assigns to the module-level beardPath
beardPathOf(r) ==
    IF r.beard # Null
    THEN imagePath(BeardPrefix \o StripSlash(toLowerCase(Doc(r.beard).name)) \o DotPng)
    ELSE imagePath(BeardNa)

\* creatImagePathArray with the beard pushed before the mood
creatImagePathArrayBeardFirst(r) ==
    LET a1 == <<layers \o <<"/">> \o r.location.image>>
        t  == addTopic(r, a1)
        i  == addInstrumentLayers(r, t.array)
        a4 == Append(i.array, beardPathOf(r))
    IN  IF t.threw THEN t
        ELSE IF i.threw THEN i
        ELSE Returned(Append(a4, layers \o MoodPrefix \o toLowerCase(r.mood.name) \o DotPng))

creatImagePathArray(r) ==
    LET a1 == <<layers \o <<"/">> \o r.location.image>>
        t  == addTopic(r, a1)
        i  == addInstrumentLayers(r, t.array)
        a4 == Append(i.array, layers \o MoodPrefix \o toLowerCase(r.mood.name) \o DotPng)
    IN  IF t.threw THEN t
        ELSE IF i.threw THEN i
        ELSE Returned(Append(a4, beardPathOf(r)))

----------------------------------------------------------------------------
(* Bounds and input sets                                                   *)

MaxSongs    == 2      \* entries in a batch
MaxPairLen  == 2      \* characters in a title of the path runs
MaxDay      == 6      \* dates are days 0..MaxDay from 1970-01-01
MaxTitleLen == 4      \* characters in a title of the slugify runs
MaxDescLen  == 4      \* characters in a background descriptor
MaxTags     == 2      \* tags in a tagArray
MaxCalls    == 2      \* calls of addOrInsertTags with the same arguments
MaxIds      == 3      \* ids in a tagIdArray

\* p-limit ceiling the module constructs (and never uses)
limit == 1

CanvasWidth  == 1792
CanvasHeight == 768

TitleAlphabet == {"a", "B", "_", " ", "-", "!"}
StrsUpTo(n)   == UNION {[1..k -> TitleAlphabet] : k \in 0..n}

Dates       == [day : 0..MaxDay, hue : {HslColor}]
Topics      == {Poetic, PoeticLower, Love, MyDay}
Secondaries == {Null} \cup {Some([name |-> n]) :
                   n \in {Uke, UkeCap, BaritoneUke, Synths, SynthsCap, Guitar}}
Mains       == {Vocals, VocalsCap, Guitar}
Moods       == {Happy, Sad}
Beards      == {Null, Some([name |-> Stubble]), Some([name |-> NotApplic])}

AllSongs ==
    [title : {TestSong}, date : Dates,
     topic : [name : Topics], location : [image : {HomePng}],
     mood : [name : Moods], mainInstrument : [name : Mains],
     secondaryInstrument : Secondaries, beard : Beards]

\* the -uke variants that may or may not be on disk
UkeVariants ==
    {imagePath(TopicPrefix \o StripSpace(toLowerCase(t)) \o UkeSuffix) : t \in Topics}

\* the songs of the batch runs
SongA == [title |-> TestSong, date |-> [day |-> 4, hue |-> HslColor],
          topic |-> [name |-> Poetic], location |-> [image |-> HomePng],
          mood |-> [name |-> Happy], mainInstrument |-> [name |-> Guitar],
          secondaryInstrument |-> Some([name |-> Uke]), beard |-> Null]
SongB == [title |-> TestSongLow, date |-> [day |-> 5, hue |-> SnowPng],
          topic |-> [name |-> Love], location |-> [image |-> HomePng],
          mood |-> [name |-> Sad], mainInstrument |-> [name |-> Vocals],
          secondaryInstrument |-> Some([name |-> BaritoneUke]),
          beard |-> Some([name |-> Stubble])]
SongC == [title |-> OtherSong, date |-> [day |-> 6, hue |-> HslColor],
          topic |-> [name |-> Love], location |-> [image |-> HomePng],
          mood |-> [name |-> Happy], mainInstrument |-> [name |-> Guitar],
          secondaryInstrument |-> Null, beard |-> Null]
SongPool == {SongA, SongB, SongC}

----------------------------------------------------------------------------
(* Slug / output path runs                                                 *)

SlugIdle == titles = <<>> /\ slugs = <<>>

LayerIdle == song = <<>> /\ layerSpec = <<>>

BatchIdle ==
    /\ results = <<>> /\ chain = "idle" /\ idx = 0 /\ timer = <<>> /\ job = <<>>
    /\ log = {} /\ disk = {} /\ started = <<>> /\ firedAtStart = <<>>
    /\ bg = Null /\ graphic = Null /\ beardPath = Null

BgIdle == descriptor = <<>> /\ canvas = <<>>

DbIdle == tagDocs = {} /\ songTags = <<>>

AddIdle ==
    /\ tagArray = <<>> /\ counter = 0 /\ resolved = 0 /\ task = <<>> /\ pc = <<>>
    /\ phase = "idle" /\ calls = 0 /\ saved = 0

DelIdle ==
    /\ tagIdArray = <<>> /\ work = <<>> /\ dpc = "idle" /\ cbCount = 0
    /\ created = 0 /\ processed = <<>>

OtherIdle == BgIdle /\ DbIdle /\ AddIdle /\ DelIdle

OutputPaths(title) ==
    LET p == fullPath(slugPath(title))
    IN  [slug |-> slugify(title), full |-> p, small |-> smallPath(p)]

InitPaths ==
    /\ titles \in [1..2 -> StrsUpTo(MaxPairLen)]
    /\ slugs = <<>>
    /\ fsFiles = {}
    /\ LayerIdle /\ BatchIdle /\ OtherIdle

\* the orchestrator's path computation followed by createImage's, for both titles
DerivePaths ==
    /\ slugs = <<>>
    /\ slugs' = [i \in 1..2 |-> OutputPaths(titles[i])]
    /\ UNCHANGED <<titles, layerVars, batchVars, otherVars>>

NextPaths == DerivePaths

SpecPaths == InitPaths /\ [][NextPaths]_vars

----------------------------------------------------------------------------
(* slugify runs: the function applied to a title, then to its own output   *)

SlugAlphabet == {"a", "B", "1", "_", " ", "-", "!"}
SlugInputs   == UNION {[1..k -> SlugAlphabet] : k \in 0..MaxTitleLen}

InitSlug ==
    /\ titles \in {<<t>> : t \in SlugInputs}
    /\ slugs = <<>>
    /\ fsFiles = {}
    /\ LayerIdle /\ BatchIdle /\ OtherIdle

SlugifyTitle ==
    /\ slugs = <<>>
    /\ slugs' = <<slugify(titles[1])>>
    /\ UNCHANGED <<titles, layerVars, batchVars, otherVars>>

SlugifySlug ==
    /\ Len(slugs) = 1
    /\ slugs' = Append(slugs, slugify(slugs[1]))
    /\ UNCHANGED <<titles, layerVars, batchVars, otherVars>>

NextSlug == SlugifyTitle \/ SlugifySlug

SpecSlug == InitSlug /\ [][NextSlug]_vars

----------------------------------------------------------------------------
(* Layer resolver runs                                                     *)

InitLayers ==
    /\ song \in AllSongs
    /\ fsFiles \in SUBSET UkeVariants
    /\ layerSpec = <<>>
    /\ SlugIdle /\ BatchIdle /\ OtherIdle

Resolve ==
    /\ layerSpec = <<>>
    /\ layerSpec' = <<creatImagePathArray(song)>>
    /\ UNCHANGED <<song, fsFiles, slugVars, otherVars, batchVars>>

NextLayers == Resolve

SpecLayers == InitLayers /\ [][NextLayers]_vars

----------------------------------------------------------------------------
(* Batch run: the promise chain of results.reduce and the render jobs      *)

Entries == 1..Len(results)

HslTag == <<"h","s","l">>

\* lines 103-108: the gm object createImage builds for descriptor b
newGraphic(b) ==
    IF Matches(b, HslTag)
    THEN [kind |-> "solid", width |-> CanvasWidth, height |-> CanvasHeight, source |-> b]
    ELSE [kind |-> "file", width |-> 0, height |-> 0, source |-> b]

NoJob == [stage |-> "idle", pngPath |-> <<>>, array |-> <<>>, base |-> Null,
          buffer |-> Null, k |-> 0]

\* the stages in which an ImageMagick operation of the job is outstanding
Pending == {"background", "overlay", "write", "thumbnail"}

\* one console.log / console.dir call: the job it was made for, what was
\* printed, and the file paths the printed text contains
Line(i, kind, paths) == [job |-> i, kind |-> kind, paths |-> paths]

InitBatch ==
    /\ results \in UNION {[1..n -> SongPool] : n \in 1..MaxSongs}
    /\ fsFiles = UkeVariants
    /\ chain = "ready"
    /\ idx = 0
    /\ timer = [i \in Entries |-> "unset"]
    /\ job = [i \in Entries |-> NoJob]
    /\ log = {}
    /\ disk = {}
    /\ started = <<>>
    /\ firedAtStart = [i \in Entries |-> {}]
    /\ bg = Null /\ graphic = Null /\ beardPath = Null
    /\ SlugIdle /\ LayerIdle /\ OtherIdle

\* lines 100-110: createImage(date, array, pngPath), up to the call of toBuffer
createImage(i, date, array, pngPath, tm) ==
    LET b == getHueForDate(date)
        g == newGraphic(b)
    IN  /\ bg' = Some(b)
        /\ graphic' = Some(g)
        /\ job' = [job EXCEPT ![i] =
                      [stage |-> "background", pngPath |-> fullPath(pngPath),
                       array |-> array, base |-> Some(g), buffer |-> Null, k |-> 0]]
        /\ started' = Append(started, i)
        /\ firedAtStart' = [firedAtStart EXCEPT ![i] = {j \in Entries : tm[j] = "fired"}]

\* lines 48-51: the then-callback of entry i; tm is the state of the timers
\* when it runs.  delay(100) is evaluated first, then creatImagePathArray,
\* then createImage; what createImage returns (undefined) joins Promise.all.
thenCallback(i, tm) ==
    LET s    == results[i]
        slug == slugPath(s.title)
        r    == creatImagePathArray(s)
    IN  /\ idx' = i
        /\ timer' = [tm EXCEPT ![i] = "armed"]
        /\ IF r.threw
           THEN /\ chain' = "rejected"
                /\ job' = [job EXCEPT ![i].stage = "threw"]
                /\ UNCHANGED <<log, started, firedAtStart, bg, graphic, beardPath>>
           ELSE /\ chain' = "waiting"
                /\ beardPath' = Some(beardPathOf(s))
                /\ log' = log \cup {Line(i, "array", Range(r.array))}
                /\ createImage(i, s.date, r.array, slug, tm)
        /\ UNCHANGED <<results, fsFiles, disk>>

\* the callback chained on Promise.resolve() runs first
FirstThen ==
    /\ chain = "ready"
    /\ thenCallback(1, timer)
    /\ UNCHANGED <<slugVars, otherVars, song, layerSpec>>

\* DelayThenNext with a retry: the entry is run again when its render has
\* already failed
DelayThenRetry(i) ==
    /\ timer[i] = "armed" /\ chain = "waiting" /\ i = idx /\ i < Len(results)
    /\ thenCallback(IF job[i].stage = "bgFailed" THEN i ELSE i + 1,
                    [timer EXCEPT ![i] = "fired"])
    /\ UNCHANGED <<slugVars, otherVars, song, layerSpec>>

\* DelayThenNext without the delay in Promise.all: the next then-callback
\* runs while the timer is still armed
NoDelayThenNext(i) ==
    /\ timer[i] = "armed" /\ chain = "waiting" /\ i = idx /\ i < Len(results)
    /\ thenCallback(i + 1, timer)
    /\ UNCHANGED <<slugVars, otherVars, song, layerSpec>>

\* the setTimeout of entry i fires, Promise.all resolves and the next
\* entry's then-callback runs in the same turn
DelayThenNext(i) ==
    /\ timer[i] = "armed" /\ chain = "waiting" /\ i = idx /\ i < Len(results)
    /\ thenCallback(i + 1, [timer EXCEPT ![i] = "fired"])
    /\ UNCHANGED <<slugVars, otherVars, song, layerSpec>>

\* the setTimeout of the last entry fires: the chain is fulfilled
DelayThenEnd(i) ==
    /\ timer[i] = "armed" /\ chain = "waiting" /\ i = idx /\ i = Len(results)
    /\ timer' = [timer EXCEPT ![i] = "fired"]
    /\ chain' = "fulfilled"
    /\ UNCHANGED <<slugVars, otherVars, layerVars, results, idx, job, log, disk, started,
                   firedAtStart, bg, graphic, beardPath>>

\* the setTimeout of an entry whose then-callback threw: Promise.all was
\* never built and the chain stays rejected
DelayOrphan(i) ==
    /\ timer[i] = "armed" /\ chain = "rejected"
    /\ timer' = [timer EXCEPT ![i] = "fired"]
    /\ UNCHANGED <<slugVars, otherVars, layerVars, results, chain, idx, job, log, disk, started,
                   firedAtStart, bg, graphic, beardPath>>

jobFrame == <<slugVars, otherVars, layerVars, results, chain, idx, timer, started,
              firedAtStart, bg, graphic, beardPath>>

\* lines 114-118: what the job does with buffer b once k layers are folded:
\* overlay the next layer, or hand the buffer to write
nextOp(j, b, k) ==
    [j EXCEPT !.buffer = b, !.k = k,
              !.stage = IF k < Len(j.array) THEN "overlay" ELSE "write"]

\* BackgroundDone reading the module-level graphic when the callback runs
\* instead of the gm object toBuffer was called on
BackgroundDoneGlobal(i) ==
    /\ job[i].stage = "background"
    /\ job' = [job EXCEPT ![i] =
                  nextOp(@, Some([base |-> Doc(graphic), over |-> <<>>]), 0)]
    /\ UNCHANGED <<jobFrame, log, disk>>

\* line 110-116: the background rendered; the first overlay is issued
BackgroundDone(i) ==
    /\ job[i].stage = "background"
    /\ job' = [job EXCEPT ![i] =
                  nextOp(@, Some([base |-> Doc(job[i].base), over |-> <<>>]), 0)]
    /\ UNCHANGED <<jobFrame, log, disk>>

\* line 111: if (err) return console.log(err)
BackgroundFailed(i) ==
    /\ job[i].stage = "background"
    /\ job' = [job EXCEPT ![i].stage = "bgFailed"]
    /\ log' = log \cup {Line(i, "err", {})}
    /\ UNCHANGED <<jobFrame, disk>>

\* lines 12-22: compositeImage resolved with the new buffer
OverlayDone(i) ==
    /\ job[i].stage = "overlay" /\ job[i].buffer # Null
    /\ LET b == Doc(job[i].buffer)
           l == job[i].array[job[i].k + 1]
       IN  job' = [job EXCEPT ![i] =
                      nextOp(@, Some([b EXCEPT !.over = Append(@, l)]), job[i].k + 1)]
    /\ UNCHANGED <<jobFrame, log, disk>>

\* lines 16-19: toBuffer gave err: it is printed and the promise is resolved
\* with newBuffer, which is undefined; the next operation is issued on it
OverlayFailed(i) ==
    /\ job[i].stage = "overlay"
    /\ job' = [job EXCEPT ![i] = nextOp(@, Null, job[i].k + 1)]
    /\ log' = log \cup {Line(i, "err", {})}
    /\ UNCHANGED <<jobFrame, disk>>

\* as OverlayFailed, but gm throws when called with the undefined buffer:
\* the promise rejects and line 130 prints pngPath and the error
OverlayFailedThenThrow(i) ==
    /\ job[i].stage = "overlay"
    /\ job' = [job EXCEPT ![i].stage = "caught", ![i].buffer = Null,
                          ![i].k = job[i].k + 1]
    /\ log' = log \cup {Line(i, "err", {}), Line(i, "path", {job[i].pngPath})}
    /\ UNCHANGED <<jobFrame, disk>>

\* lines 119-126: the full-resolution file is written; the thumbnail is issued
WriteDone(i) ==
    /\ job[i].stage = "write" /\ job[i].buffer # Null
    /\ job' = [job EXCEPT ![i].stage = "thumbnail"]
    /\ disk' = {f \in disk : f.path # job[i].pngPath}
               \cup {[path |-> job[i].pngPath, by |-> i, image |-> job[i].buffer]}
    /\ log' = log \cup {Line(i, "created", {job[i].pngPath})}
    /\ UNCHANGED jobFrame

\* WriteFailed without the return of line 120: the thumbnail is issued
\* although the write failed
WriteFailedThenThumb(i) ==
    /\ job[i].stage = "write"
    /\ job' = [job EXCEPT ![i].stage = "thumbnail"]
    /\ log' = log \cup {Line(i, "dir", {job[i].pngPath})}
    /\ UNCHANGED <<jobFrame, disk>>

\* line 120: if (err) return console.dir(arguments); arguments[3] is the
\* command line, which names pngPath
WriteFailed(i) ==
    /\ job[i].stage = "write"
    /\ job' = [job EXCEPT ![i].stage = "writeFailed"]
    /\ log' = log \cup {Line(i, "dir", {job[i].pngPath})}
    /\ UNCHANGED <<jobFrame, disk>>

\* lines 122-128: the thumbnail is derived from the file at pngPath
ThumbDone(i) ==
    /\ job[i].stage = "thumbnail"
    /\ \E f \in disk :
          /\ f.path = job[i].pngPath
          /\ disk' = {g \in disk : g.path # smallPath(job[i].pngPath)}
                     \cup {[path |-> smallPath(job[i].pngPath), by |-> i,
                            image |-> Some([thumbOf |-> f.image, from |-> f.by,
                                            source |-> f.path])]}
    /\ job' = [job EXCEPT ![i].stage = "done"]
    /\ log' = log \cup {Line(i, "hooray", {})}
    /\ UNCHANGED jobFrame

\* line 127: if (!err) ...: an error of the second write prints nothing
ThumbFailed(i) ==
    /\ job[i].stage = "thumbnail"
    /\ job' = [job EXCEPT ![i].stage = "thumbFailed"]
    /\ UNCHANGED <<jobFrame, log, disk>>

Next ==
    \/ FirstThen
    \/ \E i \in Entries : DelayThenNext(i)
    \/ \E i \in Entries : DelayThenEnd(i)
    \/ \E i \in Entries : DelayOrphan(i)
    \/ \E i \in Entries : BackgroundDone(i)
    \/ \E i \in Entries : BackgroundFailed(i)
    \/ \E i \in Entries : OverlayDone(i)
    \/ \E i \in Entries : OverlayFailed(i)
    \/ \E i \in Entries : OverlayFailedThenThrow(i)
    \/ \E i \in Entries : WriteDone(i)
    \/ \E i \in Entries : WriteFailed(i)
    \/ \E i \in Entries : ThumbDone(i)
    \/ \E i \in Entries : ThumbFailed(i)

Spec == InitBatch /\ [][Next]_vars

----------------------------------------------------------------------------
(* Properties of the batch run                                             *)

InFlight == {i \in Entries : job[i].stage \in Pending}

\* C1: with the ceiling of 1 (limit), at no instant is more than one render
\* job in flight: createImage is not called for the next entry while the
\* previous entry's job still has an operation outstanding.
AtMostLimitInFlight == Cardinality(InFlight) <= limit

FailedStages == {"threw", "bgFailed", "caught", "writeFailed", "thumbFailed"}
Failed(i)    == job[i].stage \in FailedStages
FailureLines == {"err", "dir", "path"}

Terminated ==
    /\ chain \in {"fulfilled", "rejected"}
    /\ \A i \in Entries : job[i].stage \notin Pending /\ timer[i] # "armed"

\* C2: when the batch has ended and exactly one job k has failed, of whatever
\* kind, every other job completed, job k has a failure line in the log,
\* the orchestrator's promise was not rejected and every entry was attempted.
FailureIsolated ==
    (Terminated /\ Cardinality({i \in Entries : Failed(i)}) = 1) =>
        /\ chain = "fulfilled"
        /\ idx = Len(results)
        /\ \A i \in Entries :
              IF Failed(i)
              THEN \E e \in log : e.job = i /\ e.kind \in FailureLines
              ELSE job[i].stage = "done"

\* C3: every render job that failed in the background render, a layer
\* overlay or the full-resolution write has a failure line in the log that
\* contains the job's output path.
FailureLoggedWithPath ==
    \A i \in Entries :
        job[i].stage \in {"bgFailed", "caught", "writeFailed"} =>
            \E e \in log : /\ e.job = i /\ e.kind \in FailureLines
                           /\ job[i].pngPath \in e.paths

\* C4: the render jobs started so far are the first entries of the
\* collection, in collection order, each started once (no retry, also after
\* a failure).
StartedIsPrefix ==
    /\ Len(started) <= Len(results)
    /\ \A n \in 1..Len(started) : started[n] = n

\* C4 witness: the second entry's job was started after the first one failed
SecondStartedAfterFailure ==
    Len(started) = 2 /\ job[1].stage = "bgFailed"

\* C5 as claimed: for every entry whose render has begun, the first
\* included, a delay had fully elapsed before createImage was called.
DelayBeforeEveryRender ==
    \A n \in 1..Len(started) : firedAtStart[started[n]] # {}

\* C5 as amended: when createImage is called for entry i, the delays that
\* have elapsed are exactly those of the entries before i: none for the first
\* entry, the previous entry's for every other, and never the entry's own.
DelayBetweenRenders ==
    \A n \in 1..Len(started) :
        firedAtStart[started[n]] = 1..(started[n] - 1)

\* C5 witness: a second render has begun, after the first entry's delay
SecondStartedAfterDelay ==
    Len(started) >= 2 /\ 1 \in firedAtStart[2] /\ timer[2] = "armed"

----------------------------------------------------------------------------
(* Properties of the output paths                                          *)

\* C6: two entries with distinct titles have distinct output files: neither
\* the full-resolution nor the _small file of one is a file of the other.
DistinctTitlesDistinctFiles ==
    (slugs # <<>> /\ titles[1] # titles[2]) =>
        {slugs[1].full, slugs[1].small} \cap {slugs[2].full, slugs[2].small} = {}

----------------------------------------------------------------------------
(* Properties of the layer resolver                                        *)

IsTopicLayer(p)      == IsPrefix(layers \o TopicPrefix, p)
IsInstrumentLayer(p) == IsPrefix(layers \o InstrumentPrefix, p)
IsMoodLayer(p)       == IsPrefix(layers \o MoodPrefix, p)
IsBeardLayer(p)      == IsPrefix(layers \o BeardPrefix, p)

instrumentLayer(name) ==
    layers \o InstrumentPrefix \o StripSpace(toLowerCase(name)) \o DotPng

\* C7: a LayerSpec that is returned has the location layer first, the topic
\* layer second, the mood layer and then the beard layer last, and one or
\* two instrument layers between (5 or 6 layers in all).
LayerOrder ==
    (layerSpec # <<>> /\ ~layerSpec[1].threw) =>
        LET a == layerSpec[1].array
            n == Len(a)
        IN  /\ n \in {5, 6}
            /\ a[1] = layers \o <<"/">> \o song.location.image
            /\ IsTopicLayer(a[2])
            /\ \A j \in 3..(n - 2) : IsInstrumentLayer(a[j])
            /\ IsMoodLayer(a[n - 1])
            /\ a[n - 1] = layers \o MoodPrefix \o toLowerCase(song.mood.name) \o DotPng
            /\ IsBeardLayer(a[n])

\* C7 witness: a returned LayerSpec of six layers for a song with a beard
SixLayersReturned ==
    /\ layerSpec # <<>> /\ ~layerSpec[1].threw
    /\ Len(layerSpec[1].array) = 6 /\ song.beard # Null

\* the instrument layers of the three cases, for song s
claimedInstrumentLayers(s) ==
    IF s.secondaryInstrument # Null
       /\ toLowerCase(Doc(s.secondaryInstrument).name) = Synths
    THEN <<instrumentLayer(Synths), layers \o VocalsNoHands>>
    ELSE IF s.secondaryInstrument # Null /\ toLowerCase(s.mainInstrument.name) = Vocals
    THEN <<layers \o VocalsNoHands, instrumentLayer(Doc(s.secondaryInstrument).name)>>
    ELSE <<instrumentLayer(s.mainInstrument.name)>>

\* the topic layer of the precedence rules, for song s
claimedTopicLayer(s) ==
    LET basic == StripSpace(toLowerCase(s.topic.name))
        uke   == layers \o TopicPrefix \o basic \o UkeSuffix
    IN  IF s.topic.name = Poetic
        THEN layers \o TopicPrefix \o basic \o <<DigitChar(getDay(s.date) + 1)>> \o DotPng
        ELSE IF /\ s.secondaryInstrument # Null
                /\ Doc(s.secondaryInstrument).name \in {Uke, BaritoneUke}
                /\ uke \in fsFiles
        THEN uke
        ELSE layers \o TopicPrefix \o basic \o DotPng

\* C8: the instrument layers of every resolved entry are those of the three
\* cases: [synths, vocals-no-hands]; else [vocals-no-hands, secondary] when a
\* secondary instrument is present and the primary is vocals; otherwise the
\* one layer of the primary instrument.
InstrumentCases ==
    layerSpec # <<>> =>
        /\ ~layerSpec[1].threw
        /\ SelectSeq(layerSpec[1].array, IsInstrumentLayer) = claimedInstrumentLayers(song)

\* C9: an entry without a secondary instrument resolves to a complete
\* LayerSpec: the topic layer of the topic rules and the single layer of the
\* primary instrument.
NoSecondaryResolves ==
    (layerSpec # <<>> /\ song.secondaryInstrument = Null) =>
        /\ ~layerSpec[1].threw
        /\ Len(layerSpec[1].array) = 5
        /\ layerSpec[1].array[2] = claimedTopicLayer(song)
        /\ layerSpec[1].array[3] = instrumentLayer(song.mainInstrument.name)

\* C10: exactly one topic layer is pushed for every entry, chosen by
\* precedence: the weekday asset for Poetic, else the -uke variant when the
\* secondary instrument is uke or baritone uke and the variant exists, else
\* the generic asset.
TopicPrecedence ==
    layerSpec # <<>> =>
        SelectSeq(layerSpec[1].array, IsTopicLayer) = <<claimedTopicLayer(song)>>

----------------------------------------------------------------------------
(* Properties of one render job                                            *)

IsComposite(f) == "base" \in DOMAIN Doc(f.image)
IsThumbnail(f) == "thumbOf" \in DOMAIN Doc(f.image)

\* C11: within a job the layers are overlaid one at a time in list order:
\* the overlay outstanding after k overlays works on the buffer the k-th
\* overlay produced, which holds the first k layers in order, each once, and
\* the write is issued only on the buffer holding all the layers.
SequentialOverlay ==
    \A i \in Entries :
        /\ job[i].stage = "overlay" =>
              /\ job[i].k < Len(job[i].array)
              /\ job[i].buffer # Null
              /\ Doc(job[i].buffer).over = SubSeq(job[i].array, 1, job[i].k)
        /\ job[i].stage = "write" =>
              /\ job[i].k = Len(job[i].array)
              /\ job[i].buffer # Null
              /\ Doc(job[i].buffer).over = job[i].array

Created(i) ==
    \E e \in log : e.job = i /\ e.kind = "created" /\ job[i].pngPath \in e.paths

\* C12: a job's thumbnail is issued only after its full-resolution file was
\* written, is read from the file at the job's pngPath and is written to the
\* _small sibling; a job whose full-resolution write failed has no thumbnail.
ThumbAfterWrite ==
    \A i \in Entries :
        /\ job[i].stage \in {"thumbnail", "done", "thumbFailed"} =>
              /\ Created(i)
              /\ \E f \in disk : f.path = job[i].pngPath /\ IsComposite(f)
        /\ \A f \in disk : (f.by = i /\ IsThumbnail(f)) =>
              /\ job[i].stage = "done"
              /\ Doc(f.image).source = job[i].pngPath
              /\ f.path = smallPath(job[i].pngPath)
        /\ job[i].stage = "writeFailed" =>
              ~ \E f \in disk : f.by = i /\ IsThumbnail(f)

\* C12 witness: a job is done and its thumbnail is on disk
ThumbOnDisk ==
    \E i \in Entries :
        /\ job[i].stage = "done"
        /\ \E f \in disk : f.by = i /\ IsThumbnail(f)

\* C13: a job whose full-resolution write or thumbnail write failed has a
\* failure line in the log.
ArtifactFailureLogged ==
    \A i \in Entries :
        job[i].stage \in {"writeFailed", "thumbFailed"} =>
            \E e \in log : e.job = i /\ e.kind \in FailureLines

\* C18: the image a job holds or has written is made of the background and
\* the layers resolved from the job's own entry, whatever other jobs have
\* assigned to bg, graphic and beardPath in the meantime.
OwnInputsComposited ==
    /\ \A i \in Entries : job[i].buffer # Null =>
          /\ Doc(job[i].buffer).base = newGraphic(getHueForDate(results[i].date))
          /\ Doc(job[i].buffer).over =
                SubSeq(creatImagePathArray(results[i]).array, 1, job[i].k)
    /\ \A f \in disk : IsComposite(f) =>
          /\ Doc(f.image).base = newGraphic(getHueForDate(results[f.by].date))
          /\ Doc(f.image).over = creatImagePathArray(results[f.by]).array

\* C18 witness: job 1 wrote its file after job 2 had overwritten graphic
WrittenAfterGlobalsOverwritten ==
    /\ Len(started) = 2
    /\ graphic # job[1].base
    /\ \E f \in disk : f.by = 1 /\ IsComposite(f)

\* C19: once an overlay of a job has failed, the job is failed with its
\* output path logged, and neither a later overlay nor the write is issued.
OverlayFailureStopsJob ==
    \A i \in Entries :
        (job[i].k >= 1 /\ job[i].buffer = Null) =>
            /\ job[i].stage = "caught"
            /\ \E e \in log : /\ e.job = i /\ e.kind \in FailureLines
                              /\ job[i].pngPath \in e.paths

----------------------------------------------------------------------------
(* Properties of slugify                                                   *)

\* C15: slugify applied to its own output returns it unchanged, and its
\* output has no leading or trailing hyphen and no white space.
SlugIdempotent ==
    /\ Len(slugs) >= 1 =>
          /\ slugs[1] # <<>> => (Head(slugs[1]) # "-" /\ slugs[1][Len(slugs[1])] # "-")
          /\ \A n \in DOMAIN slugs[1] : ~IsSpace(slugs[1][n])
    /\ Len(slugs) = 2 => slugs[2] = slugs[1]

\* C15 witness: a title with white space, punctuation, capitals and hyphens
\* was encoded to a different string, and that string encoded again
SlugOfMessyTitle ==
    /\ Len(slugs) = 2
    /\ titles[1] = <<" ", "B", "!", "-">>
    /\ slugs[1] = <<"b">>

----------------------------------------------------------------------------
(* Background branch runs: lines 102-108 on a descriptor                   *)

DescAlphabet == {"h", "s", "l", "(", "/"}
Descriptors  == UNION {[1..k -> DescAlphabet] : k \in 0..MaxDescLen}

InitBackground ==
    /\ descriptor \in Descriptors
    /\ canvas = <<>>
    /\ fsFiles = {}
    /\ SlugIdle /\ LayerIdle /\ BatchIdle /\ DbIdle /\ AddIdle /\ DelIdle

MakeGraphic ==
    /\ canvas = <<>>
    /\ canvas' = <<newGraphic(descriptor)>>
    /\ UNCHANGED <<descriptor, slugVars, layerVars, batchVars, dbVars, addVars, delVars>>

NextBackground == MakeGraphic

SpecBackground == InitBackground /\ [][NextBackground]_vars

\* the solid-colour encoding: the CSS notation hsl(...)
IsSolidColor(d) == IsPrefix(<<"h","s","l","(">>, d)

\* C14: a descriptor that is a solid-colour encoding gives a generated
\* 1792x768 canvas of that colour; every other descriptor, whatever its
\* characters, gives the image loaded from exactly that path.
BackgroundBranch ==
    canvas # <<>> =>
        canvas[1] = IF IsSolidColor(descriptor)
                    THEN [kind |-> "solid", width |-> 1792, height |-> 768,
                          source |-> descriptor]
                    ELSE [kind |-> "file", width |-> 0, height |-> 0,
                          source |-> descriptor]

----------------------------------------------------------------------------
(* Tag model (src/index.js): documents and ids                             *)

HexChars == Digits \cup {"a","b","c","d","e","f","A","B","C","D","E","F"}

\* num.match(/^[0-9a-fA-F]{24}$/)
IsObjectId(id) == Len(id) = 24 /\ \A n \in DOMAIN id : id[n] \in HexChars

IdA     == [n \in 1..24 |-> "a"]     \* the _id of a Tag document
IdB     == [n \in 1..24 |-> "b"]     \* the _id of a Tag document
IdZ     == [n \in 1..24 |-> "f"]     \* an ObjectId no Tag document has
SongOid == [n \in 1..24 |-> "5"]     \* the _id of the song document

\* the ObjectId of the n-th document created by save()
NewId(n) == [m \in 1..24 |-> IF m = 24 THEN DigitChar(n) ELSE "0"]

Rock    == <<"r","o","c","k">>
Folk    == <<"f","o","l","k">>
Jazz    == <<"j","a","z","z">>
NoId    == <<"n","e","w">>
RockPng == <<"r",".","p","n","g">>

\* the tags a client sends
TagInputs ==
    { [_id |-> IdA,  name |-> Rock, image |-> RockPng],
      [_id |-> IdZ,  name |-> Folk, image |-> RockPng],
      [_id |-> NoId, name |-> Jazz, image |-> RockPng],
      [_id |-> NoId, name |-> <<>>, image |-> RockPng] }

\* Tag.findById / Tag.findOne({_id})
findById(id) == {d \in tagDocs : d._id = id}

\* task.update("Song", {number}, {$push: {tags: tagDoc}})
PushTag(id) == [model |-> "Song", push |-> id]
\* task.update("Tag", {_id}, {$push: {songs: song}})
PushSong(id) == [model |-> "Tag", target |-> id, push |-> SongOid]

\* number of occurrences of x in sequence q
Count(q, x) == Cardinality({n \in DOMAIN q : q[n] = x})

----------------------------------------------------------------------------
(* addOrInsertTags                                                         *)

Tags == 1..Len(tagArray)

InitTags ==
    /\ tagArray \in UNION {[1..n -> TagInputs] : n \in 0..MaxTags}
    /\ \E has \in BOOLEAN :
          /\ tagDocs = {[_id |-> IdA, name |-> Rock,
                         songs |-> IF has THEN <<SongOid>> ELSE <<>>]}
          /\ songTags = IF has THEN <<IdA>> ELSE <<>>
    /\ counter = 0 /\ resolved = 0 /\ task = <<>>
    /\ pc = [j \in Tags |-> "idle"]
    /\ phase = "idle" /\ calls = 0 /\ saved = 0
    /\ fsFiles = {}
    /\ SlugIdle /\ LayerIdle /\ BatchIdle /\ BgIdle /\ DelIdle

addFrame == <<slugVars, layerVars, batchVars, bgVars, delVars, tagArray, calls>>

\* lines 82-128, the synchronous part: counter is set, a query is issued for
\* every tag with an ObjectId or a name, and the counter is decremented at
\* once for every other tag
CallAddOrInsert ==
    /\ phase \in {"idle", "ran"} /\ calls < MaxCalls
    /\ LET blank == {j \in Tags : ~IsObjectId(tagArray[j]._id)
                                   /\ Len(tagArray[j].name) = 0}
       IN  /\ counter' = Len(tagArray) - Cardinality(blank)
           /\ resolved' = IF Tags # {} /\ blank = Tags THEN 1 ELSE 0
           /\ pc' = [j \in Tags |->
                        IF IsObjectId(tagArray[j]._id) THEN "findSong"
                        ELSE IF Len(tagArray[j].name) > 0 THEN "findSongNew"
                        ELSE "done"]
    /\ task' = <<>>
    /\ phase' = "called"
    /\ calls' = calls + 1
    /\ UNCHANGED <<slugVars, layerVars, batchVars, bgVars, delVars, dbVars,
                   tagArray, saved>>

\* lines 88-90 and 107-109: Song.findOne resolved; the tag query is issued
SongFound(j) ==
    /\ pc[j] \in {"findSong", "findSongNew"}
    /\ pc' = [pc EXCEPT ![j] = IF pc[j] = "findSong" THEN "findTag" ELSE "saving"]
    /\ UNCHANGED <<addFrame, dbVars, counter, resolved, task, phase, saved>>

\* lines 97-101 and 113-117: counter -= 1; if (counter === 0) resolve(task)
countDown ==
    /\ counter' = counter - 1
    /\ resolved' = IF counter - 1 = 0 THEN resolved + 1 ELSE resolved

\* lines 91-101: Tag.findById resolved with the document
TagFound(j) ==
    /\ pc[j] = "findTag"
    /\ \E d \in findById(tagArray[j]._id) :
          task' = task \o <<PushTag(d._id)>>
                       \o (IF Count(d.songs, SongOid) = 0
                           THEN <<PushSong(d._id)>> ELSE <<>>)
    /\ countDown
    /\ pc' = [pc EXCEPT ![j] = "done"]
    /\ UNCHANGED <<addFrame, dbVars, phase, saved>>

\* lines 91-93: Tag.findById resolved with null: the update of line 92 is
\* added with a null tag and line 93 throws in the then-callback
TagMissing(j) ==
    /\ pc[j] = "findTag"
    /\ findById(tagArray[j]._id) = {}
    /\ task' = Append(task, PushTag(Null))
    /\ pc' = [pc EXCEPT ![j] = "threw"]
    /\ UNCHANGED <<addFrame, dbVars, counter, resolved, phase, saved>>

\* lines 109-117: newTag.save() resolved with the saved document
TagSaved(j) ==
    /\ pc[j] = "saving"
    /\ saved' = saved + 1
    /\ tagDocs' = tagDocs \cup {[_id |-> NewId(saved + 1), name |-> tagArray[j].name,
                                 songs |-> <<>>]}
    /\ task' = task \o <<PushTag(NewId(saved + 1)), PushSong(NewId(saved + 1))>>
    /\ countDown
    /\ pc' = [pc EXCEPT ![j] = "done"]
    /\ UNCHANGED <<addFrame, songTags, phase>>

\* the caller runs the task its promise resolved with: the $push updates
\* are applied in the order they were added
RunTask ==
    /\ phase = "called" /\ resolved >= 1
    /\ songTags' = songTags \o
           [n \in 1..Len(SelectSeq(task, LAMBDA u : u.model = "Song")) |->
               SelectSeq(task, LAMBDA u : u.model = "Song")[n].push]
    /\ tagDocs' = {[d EXCEPT !.songs =
                       @ \o [n \in 1..Count(task, PushSong(d._id)) |-> SongOid]] :
                   d \in tagDocs}
    /\ phase' = "ran"
    /\ UNCHANGED <<addFrame, counter, resolved, task, pc, saved>>

NextTags ==
    \/ CallAddOrInsert
    \/ \E j \in Tags : SongFound(j)
    \/ \E j \in Tags : TagFound(j)
    \/ \E j \in Tags : TagMissing(j)
    \/ \E j \in Tags : TagSaved(j)
    \/ RunTask

SpecTags == InitTags /\ [][NextTags]_vars

\* C16: for every tagArray, once the call has no callback left to run its
\* promise has been resolved exactly once, and whenever it is resolved the
\* updates of every tag of the array have been added to the task.
PromiseResolvesOnce ==
    /\ (phase # "idle" /\ \A j \in Tags : pc[j] \in {"done", "threw"}) => resolved = 1
    /\ resolved >= 1 => \A j \in Tags : pc[j] = "done"
    /\ resolved <= 1

\* C17: after the returned task is run, also for a repeated call, the
\* song's tags hold no tag twice and every existing tag of the array holds
\* the song exactly once.
NoDuplicateAssociation ==
    phase = "ran" =>
        /\ \A n \in DOMAIN songTags : Count(songTags, songTags[n]) = 1
        /\ \A j \in Tags : \A d \in findById(tagArray[j]._id) :
              Count(d.songs, SongOid) = 1

----------------------------------------------------------------------------
(* deleteMany                                                              *)

\* the tag subdocument a song holds
SubDoc(id, name) == [_id |-> id, name |-> name]

InitDelete ==
    /\ tagIdArray \in UNION {[1..n -> {IdA, IdB, IdZ}] : n \in 0..MaxIds}
    /\ tagDocs = {[_id |-> IdA, name |-> Rock, songs |-> <<SongOid>>],
                  [_id |-> IdB, name |-> Folk, songs |-> <<SongOid>>]}
    /\ songTags \in {<<SubDoc(IdA, Rock), SubDoc(IdB, Folk)>>,
                     <<SubDoc(IdB, Folk), SubDoc(IdA, Rock)>>,
                     <<SubDoc(IdA, Rock)>>}
    /\ work = <<>> /\ dpc = "idle" /\ cbCount = 0 /\ created = 0
    /\ processed = <<>>
    /\ fsFiles = {}
    /\ SlugIdle /\ LayerIdle /\ BatchIdle /\ BgIdle /\ AddIdle

delFrame == <<slugVars, layerVars, batchVars, bgVars, addVars, tagIdArray>>

\* lines 221-228: recurse(array)
recurse(array) ==
    /\ created' = created + 1
    /\ IF Len(array) = 0
       THEN /\ cbCount' = cbCount + 1
            /\ dpc' = "done"
            /\ work' = array
       ELSE /\ work' = Tail(array)
            /\ dpc' = "finding"
            /\ UNCHANGED cbCount

\* line 227: the id shifted off the working copy by the current recursion
tag == tagIdArray[Len(tagIdArray) - Len(work)]

\* line 239: recurse(tagIdArray.slice())
CallDeleteMany ==
    /\ dpc = "idle"
    /\ recurse(tagIdArray)
    /\ UNCHANGED <<delFrame, dbVars, processed>>

\* lines 229-233: Tag.findOne resolved with the document; the two updates
\* are added and the task is run
TagFoundDel ==
    /\ dpc = "finding"
    /\ findById(tag) # {}
    /\ dpc' = "running"
    /\ UNCHANGED <<delFrame, dbVars, work, cbCount, created, processed>>

\* lines 229-230: Tag.findOne resolved with null; console.log(tagDoc.name)
\* throws in the then-callback, nothing catches it
TagMissingDel ==
    /\ dpc = "finding"
    /\ findById(tag) = {}
    /\ dpc' = "threw"
    /\ UNCHANGED <<delFrame, dbVars, work, cbCount, created, processed>>

\* lines 231-236: task.run resolved: the tag is pulled from the songs by
\* name and removed from the collection, then recurse(array)
TaskRan ==
    /\ dpc = "running"
    /\ \E d \in findById(tag) :
          songTags' = SelectSeq(songTags, LAMBDA t : t.name # d.name)
    /\ tagDocs' = tagDocs \ findById(tag)
    /\ processed' = Append(processed, tag)
    /\ recurse(work)
    /\ UNCHANGED delFrame

NextDelete ==
    \/ CallDeleteMany
    \/ TagFoundDel
    \/ TagMissingDel
    \/ TaskRan

SpecDelete == InitDelete /\ [][NextDelete]_vars

\* C20: the ids are processed one at a time in array order, one task per
\* id, and for every input array, once deleteMany has nothing left to run,
\* cb has been invoked exactly once and every id has been processed.
DeleteManyCompletes ==
    /\ IsPrefix(processed, tagIdArray)
    /\ cbCount <= 1
    /\ cbCount = 1 => processed = tagIdArray
    /\ dpc \in {"done", "threw"} => cbCount = 1 /\ processed = tagIdArray

=============================================================================
